---- MODULE Spec2Model ----
(***************************************************************************)
(* Shabda web routes (src/shabda/web.py) and the Dj engine they call.      *)
(*                                                                         *)
(* Strings are sequences of one-character strings, so that split, replace, *)
(* substring tests and number formatting are computed as Python computes   *)
(* them.  A pitch is an integer number of tenths (10 is 1.0, -15 is -1.5). *)
(***************************************************************************)
EXTENDS Integers, Sequences, FiniteSets, TLC

VARIABLES
    route,        \* the route the request was sent to
    definition,   \* the <definition> path segment, a string
    strudel,      \* request.args "strudel"
    pitch,        \* request.args "pitch", in tenths
    pc,           \* position of the request handler
    words,        \* the parsed definition: sequence of [word, number]
    tasks,        \* the coroutines handed to asyncio.gather
    order,        \* indices of the tasks in the order they completed
    fetchCalls,   \* dj.fetch calls issued, <<word, number>>
    speakCalls,   \* dj.speak calls issued, <<word, pitch>>
    listCalls,    \* dj.list calls issued, <<word, number>>
    cache,        \* plain sample cache: word -> number of cached samples
    speechCache,  \* speech sample cache: word -> set of cached pitch variants
    status,       \* global_status of pack / speech
    response,     \* the response returned, or NoResponse
    callers,      \* concurrent dj.fetch calls: caller -> record
    token,        \* dedup token: FetchKey -> holder (0 when free)
    downloads     \* remote downloads issued per FetchKey

vars == <<route, definition, strudel, pitch, pc, words, tasks, order,
          fetchCalls, speakCalls, listCalls, cache, speechCache, status,
          response, callers, token, downloads>>

reqVars == <<route, definition, strudel, pitch, pc, words, tasks, order,
             fetchCalls, speakCalls, listCalls, speechCache, status, response>>

dedupVars == <<callers, token, downloads>>

----------------------------------------------------------------------------
(* Bounds *)

MaxSegs == 2      \* segments in a definition
MaxCount == 2     \* largest count written in a definition
MaxCached == 2    \* samples of a word cached before the request
NCallers == 3     \* concurrent dj.fetch calls

----------------------------------------------------------------------------
(* Strings *)

Digits == <<"0", "1", "2", "3", "4", "5", "6", "7", "8", "9">>

Abs(x) == IF x < 0 THEN -x ELSE x

\* str(n) for n >= 0
RECURSIVE NatStr(_)
NatStr(n) ==
    IF n < 10 THEN <<Digits[n + 1]>>
    ELSE NatStr(n \div 10) \o <<Digits[(n % 10) + 1]>>

IsDigit(c) == \E d \in 1..10 : Digits[d] = c

DigitVal(c) == (CHOOSE d \in 1..10 : Digits[d] = c) - 1

\* int(s) for a string of decimal digits; -1 stands for ValueError
RECURSIVE StrNat(_)
StrNat(s) ==
    IF Len(s) = 0 \/ \E i \in 1..Len(s) : ~IsDigit(s[i]) THEN -1
    ELSE IF Len(s) = 1 THEN DigitVal(s[1])
    ELSE 10 * StrNat(SubSeq(s, 1, Len(s) - 1)) + DigitVal(s[Len(s)])

\* s.split(sep)
RECURSIVE Split(_, _)
Split(s, sep) ==
    IF \A i \in 1..Len(s) : s[i] # sep THEN <<s>>
    ELSE LET i == CHOOSE k \in 1..Len(s) :
                      s[k] = sep /\ \A j \in 1..(k - 1) : s[j] # sep
         IN  <<SubSeq(s, 1, i - 1)>> \o Split(SubSeq(s, i + 1, Len(s)), sep)

\* sep.join(parts)
RECURSIVE Join(_, _)
Join(parts, sep) ==
    IF Len(parts) = 0 THEN <<>>
    ELSE IF Len(parts) = 1 THEN parts[1]
    ELSE parts[1] \o <<sep>> \o Join(Tail(parts), sep)

\* s.replace(" ", "_")
ReplaceSpaces(s) == [i \in 1..Len(s) |-> IF s[i] = " " THEN "_" ELSE s[i]]

\* sub in s
Contains(s, sub) ==
    \E i \in 1..(Len(s) - Len(sub) + 1) : SubSeq(s, i, i + Len(sub) - 1) = sub

RECURSIVE SetToSeq(_)
SetToSeq(S) ==
    IF S = {} THEN <<>>
    ELSE LET m == CHOOSE x \in S : \A y \in S : x <= y
         IN  <<m>> \o SetToSeq(S \ {m})

----------------------------------------------------------------------------
(* Pitch formatting *)

\* f"{pitch:+.1f}"
FormatSigned1(p) ==
    <<IF p < 0 THEN "-" ELSE "+">> \o NatStr(Abs(p) \div 10)
        \o <<".", Digits[(Abs(p) % 10) + 1]>>

\* f"_p{pitch:+.1f}"
pitch_suffix(p) == <<"_", "p">> \o FormatSigned1(p)

\* pitch_int = int(pitch) if pitch == int(pitch) else pitch; f"{pitch_int}"
PitchIntStr(p) ==
    (IF p < 0 THEN <<"-">> ELSE <<>>) \o NatStr(Abs(p) \div 10)
        \o (IF p % 10 = 0 THEN <<>> ELSE <<".", Digits[(Abs(p) % 10) + 1]>>)

\* mutant: the key takes the file-name rendering of the pitch
sample_key_suffix(word, p) ==
    IF p # 0 THEN word \o <<"_", "p">> \o FormatSigned1(p) ELSE word

\* sample_key of speech_json
sample_key(word, p) ==
    IF p # 0 THEN word \o <<"_", "p">> \o PitchIntStr(p) ELSE word

----------------------------------------------------------------------------
(* Definitions: Dj.parse_definition *)

\* The count of a segment written without one.  pack tests for it
\* (number is None) and clean_definition prints nothing for it.
None == 0

\* words[word] = number on an insertion-ordered mapping: a repeated word
\* keeps its place and takes the later count
Upsert(ws, word, number) ==
    IF \E i \in 1..Len(ws) : ws[i].word = word
    THEN [i \in 1..Len(ws) |->
             IF ws[i].word = word THEN [word |-> word, number |-> number]
             ELSE ws[i]]
    ELSE Append(ws, [word |-> word, number |-> number])

\* one segment: word or word:count
SectionWord(sec) == Split(sec, ":")[1]

SectionNumber(sec) ==
    LET parts == Split(sec, ":")
    IN  IF Len(parts) = 1 THEN None ELSE StrNat(parts[2])

SectionOk(sec) ==
    LET parts == Split(sec, ":")
    IN  /\ Len(parts) <= 2
        /\ Len(parts[1]) > 0
        /\ Len(parts) = 2 => StrNat(parts[2]) >= 1

RECURSIVE ParseSections(_, _)
ParseSections(secs, acc) ==
    IF Len(secs) = 0 THEN acc
    ELSE ParseSections(Tail(secs),
             Upsert(acc, SectionWord(secs[1]), SectionNumber(secs[1])))

\* dj.parse_definition(definition); ok = FALSE stands for ValueError
parse_definition(def) ==
    LET secs == Split(def, ",")
    IN  IF \A i \in 1..Len(secs) : SectionOk(secs[i])
        THEN [ok |-> TRUE, words |-> ParseSections(secs, <<>>)]
        ELSE [ok |-> FALSE, words |-> <<>>]

\* mutant: the ValueError is swallowed
BadRequestSwallowed(parsed) == FALSE

\* except ValueError as ex: raise BadRequest(ex) from ex
BadRequest(parsed) == ~parsed.ok

\* clean_definition(words)
clean_definition(ws) ==
    Join([i \in 1..Len(ws) |->
             ws[i].word \o (IF ws[i].number # None
                            THEN <<":">> \o NatStr(ws[i].number)
                            ELSE <<>>)], ",")

----------------------------------------------------------------------------
(* The sample trees and Dj.list *)

SAMPLES_PATH == <<"s", "a", "m", "p", "l", "e", "s", "/">>

SPEECH_SAMPLE_PATH ==
    <<"s", "p", "e", "e", "c", "h", "_">> \o SAMPLES_PATH

\* file of the i-th cached plain sample of a word
SampleFile(word, i) == SAMPLES_PATH \o word \o <<"/">> \o NatStr(i)

\* the pitch suffix _p+D.D / _p-D.D embedded in a speech file name
FilePitchSuffix(p) ==
    <<"_", "p", IF p < 0 THEN "-" ELSE "+">> \o NatStr(Abs(p) \div 10)
        \o <<".">> \o NatStr(Abs(p) % 10)

\* file of the speech sample of a word at a pitch: the pitch suffix is
\* embedded when the pitch is not neutral
SpeechFile(word, p) ==
    SPEECH_SAMPLE_PATH \o word \o (IF p = 0 THEN <<>> ELSE FilePitchSuffix(p))

Min(a, b) == IF a < b THEN a ELSE b

Max(a, b) == IF a < b THEN b ELSE a

\* dj.list(word, number): up to number cached samples, all of them when
\* number is None, in a stable order
DjList(c, word, number) ==
    LET k == IF number = None THEN c[word] ELSE Min(number, c[word])
    IN  [i \in 1..k |-> [file |-> SampleFile(word, i)]]

\* dj.list(word, gender=, language=, soundtype="tts"): every cached speech
\* sample of the word, pitch variants included, in a stable order
DjListSpeech(sc, word) ==
    LET ps == SetToSeq(sc[word])
    IN  [i \in 1..Len(ps) |-> [file |-> SpeechFile(word, ps[i])]]

----------------------------------------------------------------------------
(* pack / speech: fan-out and status *)

\* if number is None: number = 1
FetchNumber(number) == IF number = None THEN 1 ELSE number

\* the tasks list built by pack
PackTasks(ws) ==
    [i \in 1..Len(ws) |->
        [word |-> ws[i].word, arg |-> FetchNumber(ws[i].number),
         result |-> "running"]]

\* the tasks list built by speech
SpeechTasks(ws, p) ==
    [i \in 1..Len(ws) |->
        [word |-> ws[i].word, arg |-> p, result |-> "running"]]

\* mutant: the status of the last result alone
global_status_last(results) ==
    IF Len(results) > 0 /\ results[Len(results)] = "True" THEN "ok" ELSE "empty"

\* global_status over the results of asyncio.gather, in task order
RECURSIVE StatusLoop(_, _)
StatusLoop(results, global) ==
    IF Len(results) = 0 THEN global
    ELSE StatusLoop(Tail(results),
                    IF results[1] = "True" THEN "ok" ELSE global)

global_status(results) == StatusLoop(results, "empty")

\* asyncio.gather(*tasks) returns the results in the order of the tasks
GatherResults(ts) == [i \in 1..Len(ts) |-> ts[i].result]

----------------------------------------------------------------------------
(* pack_json / speech_json: assembling the listing *)

\* base = "https://" + url.hostname + ... + "/"
base == <<"h", "t", "t", "p", "s", ":", "/", "/", "h", "/">>

\* reslist = {"_base": base} if strudel else []
EmptyReslist(strud) ==
    IF strud
    THEN [err |-> FALSE, sample_num |-> 0, list |-> <<>>,
          dict |-> (<<"_", "b", "a", "s", "e">> :> [kind |-> "str", val |-> base])]
    ELSE [err |-> FALSE, sample_num |-> 0, list |-> <<>>, dict |-> <<>>]

\* mutant: sample_num is not reset for a new word
StartWordNoReset(acc) == acc

\* mutant: the record is put in front
ReslistPrepend(list, sound_data) == <<sound_data>> \o list

\* sample_num = 0
StartWord(acc) == [acc EXCEPT !.sample_num = 0]

\* reslist.append(sound_data)
ReslistAppend(list, sound_data) == Append(list, sound_data)

\* the body of "for sound in samples"; err stands for the AttributeError
\* of calling append on a str
AddSound(acc, strud, key, sound) ==
    IF acc.err THEN acc
    ELSE IF strud
    THEN IF key \notin DOMAIN acc.dict
         THEN [acc EXCEPT !.dict =
                  @ @@ (key :> [kind |-> "list", val |-> <<sound.file>>])]
         ELSE IF acc.dict[key].kind = "list"
         THEN [acc EXCEPT !.dict[key].val = Append(@, sound.file)]
         ELSE [acc EXCEPT !.err = TRUE]
    ELSE [acc EXCEPT
             !.list = ReslistAppend(@, [url |-> sound.file, type |-> "audio",
                                        bank |-> key, n |-> acc.sample_num]),
             !.sample_num = @ + 1]

RECURSIVE AddSounds(_, _, _, _)
AddSounds(acc, strud, key, samples) ==
    IF Len(samples) = 0 THEN acc
    ELSE AddSounds(AddSound(acc, strud, key, samples[1]), strud, key,
                   Tail(samples))

\* pack_json: for word, number in words.items()
RECURSIVE PackJsonLoop(_, _, _, _)
PackJsonLoop(acc, strud, ws, c) ==
    IF Len(ws) = 0 THEN acc
    ELSE PackJsonLoop(
             AddSounds(StartWord(acc), strud, ws[1].word,
                       DjList(c, ws[1].word, ws[1].number)),
             strud, Tail(ws), c)

\* mutant: a neutral request keeps the pitched variants
FilterPitchNoExclusion(samples, p) ==
    IF p # 0
    THEN SelectSeq(samples, LAMBDA s : Contains(s.file, pitch_suffix(p)))
    ELSE samples

\* speech_json: the samples kept for the requested pitch
FilterPitch(samples, p) ==
    IF p # 0
    THEN SelectSeq(samples, LAMBDA s : Contains(s.file, pitch_suffix(p)))
    ELSE SelectSeq(samples, LAMBDA s :
             /\ ~Contains(s.file, <<"_", "p", "+">>)
             /\ ~Contains(s.file, <<"_", "p", "-">>))

\* speech_json: for word in words
RECURSIVE SpeechJsonLoop(_, _, _, _, _)
SpeechJsonLoop(acc, strud, ws, sc, p) ==
    IF Len(ws) = 0 THEN acc
    ELSE SpeechJsonLoop(
             AddSounds(StartWord(acc), strud, sample_key(ws[1].word, p),
                       FilterPitch(DjListSpeech(sc, ws[1].word), p)),
             strud, Tail(ws), sc, p)

\* pack_zip / speech_zip: the files written to the archive
RECURSIVE ZipLoop(_, _)
ZipLoop(ws, c) ==
    IF Len(ws) = 0 THEN <<>>
    ELSE [i \in 1..Len(DjList(c, ws[1].word, ws[1].number)) |->
             DjList(c, ws[1].word, ws[1].number)[i].file]
         \o ZipLoop(Tail(ws), c)

RECURSIVE SpeechZipLoop(_, _)
SpeechZipLoop(ws, sc) ==
    IF Len(ws) = 0 THEN <<>>
    ELSE [i \in 1..Len(DjListSpeech(sc, ws[1].word)) |->
             DjListSpeech(sc, ws[1].word)[i].file]
         \o SpeechZipLoop(Tail(ws), sc)

----------------------------------------------------------------------------
(* Requests *)

dog == <<"d", "o", "g">>

cat == <<"c", "a", "t">>

_base == <<"_", "b", "a", "s", "e">>

Words == {dog, cat, _base}

PackRoutes == {"pack", "pack_json", "pack_zip"}

SpeechRoutes == {"speech", "speech_json", "speech_zip"}

Routes == PackRoutes \cup SpeechRoutes

\* requested pitches, in tenths: -2.0, -1.5, 0, 0.5, 1.0
Pitches == {-20, -15, 0, 5, 10}

\* segments a client writes: well-formed ones, an empty one, a zero count
Segments(r) ==
    IF r \in PackRoutes
    THEN {w \o c : w \in Words,
                   c \in {<<>>} \cup {<<":">> \o NatStr(n) : n \in {1, MaxCount}}}
         \cup {<<>>, dog \o <<":", "0">>}
    ELSE {dog, cat, <<" ", "b", "a", "s", "e">>, <<>>, dog \o <<":", "0">>}

Definitions(r) ==
    {Join(segs, ",") :
        segs \in UNION {[1..n -> Segments(r)] : n \in 1..MaxSegs}}

NoResponse == [code |-> 0, body |-> <<>>]

IdleCallers ==
    [c \in 1..NCallers |->
        [key |-> <<dog, 1>>, state |-> "off", result |-> "none",
         waitedFor |-> 0, remote |-> 0]]

FetchKeys == {dog, cat} \X (1..MaxCount)

Init ==
    /\ route \in Routes
    /\ definition \in Definitions(route)
    /\ strudel \in (IF route \in {"pack_json", "speech_json"}
                    THEN BOOLEAN ELSE {FALSE})
    /\ pitch \in (IF route \in {"speech", "speech_json"} THEN Pitches ELSE {0})
    /\ pc = "recv"
    /\ words = <<>>
    /\ tasks = <<>>
    /\ order = <<>>
    /\ fetchCalls = <<>>
    /\ speakCalls = <<>>
    /\ listCalls = <<>>
    /\ \E k \in {0, MaxCached} :
           cache = [w \in Words |-> IF route \in PackRoutes THEN k ELSE 0]
    /\ \E S \in {{}, {0}, {0, 10}} :
           speechCache = [w \in Words |-> IF route \in SpeechRoutes THEN S ELSE {}]
    /\ status = "none"
    /\ response = NoResponse
    /\ callers = IdleCallers
    /\ token = [k \in FetchKeys |-> 0]
    /\ downloads = [k \in FetchKeys |-> 0]

\* pack, up to asyncio.gather (also run by pack_json through "await pack")
pack_dispatch ==
    /\ pc = "recv"
    /\ route \in {"pack", "pack_json"}
    /\ LET parsed == parse_definition(definition)
       IN  IF BadRequest(parsed)
           THEN /\ response' = [code |-> 400, body |-> <<>>]
                /\ pc' = "done"
                /\ UNCHANGED <<words, tasks, fetchCalls>>
           ELSE /\ words' = parsed.words
                /\ tasks' = PackTasks(parsed.words)
                /\ fetchCalls' = [i \in 1..Len(parsed.words) |->
                       <<PackTasks(parsed.words)[i].word,
                         PackTasks(parsed.words)[i].arg>>]
                /\ pc' = "gather"
                /\ UNCHANGED response
    /\ UNCHANGED <<route, definition, strudel, pitch, order, speakCalls,
                   listCalls, cache, speechCache, status, dedupVars>>

\* speech, up to asyncio.gather (also run by speech_json)
speech_dispatch ==
    /\ pc = "recv"
    /\ route \in {"speech", "speech_json"}
    /\ LET parsed == parse_definition(ReplaceSpaces(definition))
       IN  IF BadRequest(parsed)
           THEN /\ response' = [code |-> 400, body |-> <<>>]
                /\ pc' = "done"
                /\ UNCHANGED <<words, tasks, speakCalls>>
           ELSE /\ words' = parsed.words
                /\ tasks' = SpeechTasks(parsed.words, pitch)
                /\ speakCalls' = [i \in 1..Len(parsed.words) |->
                       <<parsed.words[i].word, pitch>>]
                /\ pc' = "gather"
                /\ UNCHANGED response
    /\ UNCHANGED <<route, definition, strudel, pitch, order, fetchCalls,
                   listCalls, cache, speechCache, status, dedupVars>>

\* what dj.fetch(word, number) leaves in the cache: nothing new on a cache
\* hit, otherwise up to number samples downloaded (none on a remote error)
DownloadOutcomes(c, word, number) ==
    {[c EXCEPT ![word] = Max(@, got)] : got \in 0..number}

FetchOutcomes(c, word, number) ==
    IF c[word] >= number THEN {c} ELSE DownloadOutcomes(c, word, number)

\* dj.fetch returns true iff a sample of the word is now cached
FetchResult(c, word) == IF c[word] >= 1 THEN "True" ELSE "False"

\* fetch_one: the task of one word returns
fetch_one(i) ==
    /\ route \in {"pack", "pack_json"}
    /\ i \in 1..Len(tasks)
    /\ tasks[i].result = "running"
    /\ \E c \in FetchOutcomes(cache, tasks[i].word, tasks[i].arg) :
           /\ cache' = c
           /\ tasks' = [tasks EXCEPT ![i].result = FetchResult(c, tasks[i].word)]
    /\ order' = Append(order, i)
    /\ UNCHANGED <<route, definition, strudel, pitch, pc, words, fetchCalls,
                   speakCalls, listCalls, speechCache, status, response,
                   dedupVars>>

\* fetch_one: the awaited dj.fetch raises and the task raises with it
fetch_one_raises(i) ==
    /\ route \in {"pack", "pack_json"}
    /\ i \in 1..Len(tasks)
    /\ tasks[i].result = "running"
    /\ cache[tasks[i].word] < tasks[i].arg
    /\ tasks' = [tasks EXCEPT ![i].result = "raised"]
    /\ order' = Append(order, i)
    /\ UNCHANGED <<route, definition, strudel, pitch, pc, words, fetchCalls,
                   speakCalls, listCalls, cache, speechCache, status,
                   response, dedupVars>>

\* what dj.speak(word, pitch) leaves in the speech cache: the variant is
\* there already, or it is synthesized and stored, or synthesis fails
SpeakOutcomes(sc, word, p) ==
    IF p \in sc[word] THEN {sc}
    ELSE {sc, [sc EXCEPT ![word] = @ \cup {p}]}

SpeakResult(sc, word, p) == IF p \in sc[word] THEN "True" ELSE "False"

\* speak_one: the task of one word returns
speak_one(i) ==
    /\ route \in {"speech", "speech_json"}
    /\ i \in 1..Len(tasks)
    /\ tasks[i].result = "running"
    /\ \E sc \in SpeakOutcomes(speechCache, tasks[i].word, tasks[i].arg) :
           /\ speechCache' = sc
           /\ tasks' = [tasks EXCEPT
                  ![i].result = SpeakResult(sc, tasks[i].word, tasks[i].arg)]
    /\ order' = Append(order, i)
    /\ UNCHANGED <<route, definition, strudel, pitch, pc, words, fetchCalls,
                   speakCalls, listCalls, cache, status, response, dedupVars>>

\* speak_one: the awaited dj.speak raises and the task raises with it
speak_one_raises(i) ==
    /\ route \in {"speech", "speech_json"}
    /\ i \in 1..Len(tasks)
    /\ tasks[i].result = "running"
    /\ tasks[i].arg \notin speechCache[tasks[i].word]
    /\ tasks' = [tasks EXCEPT ![i].result = "raised"]
    /\ order' = Append(order, i)
    /\ UNCHANGED <<route, definition, strudel, pitch, pc, words, fetchCalls,
                   speakCalls, listCalls, cache, speechCache, status,
                   response, dedupVars>>

\* results = await asyncio.gather(*tasks): a task raised, gather raises it
\* at once to the handler and the request ends in a server error
gather_raises ==
    /\ pc = "gather"
    /\ \E i \in 1..Len(tasks) : tasks[i].result = "raised"
    /\ response' = [code |-> 500, body |-> <<>>]
    /\ pc' = "done"
    /\ UNCHANGED <<route, definition, strudel, pitch, words, tasks, order,
                   fetchCalls, speakCalls, listCalls, cache, speechCache,
                   status, dedupVars>>

\* results = await asyncio.gather(*tasks) returns; global_status; jsonify
gather_returns ==
    /\ pc = "gather"
    /\ \A i \in 1..Len(tasks) : tasks[i].result \in {"True", "False"}
    /\ status' = global_status(GatherResults(tasks))
    /\ IF route \in {"pack", "speech"}
       THEN /\ response' =
                  [code |-> 200,
                   body |-> [status |-> global_status(GatherResults(tasks)),
                             definition |-> clean_definition(words)]]
            /\ pc' = "done"
       ELSE /\ pc' = "assemble"
            /\ UNCHANGED response
    /\ UNCHANGED <<route, definition, strudel, pitch, words, tasks, order,
                   fetchCalls, speakCalls, listCalls, cache, speechCache,
                   dedupVars>>

\* the response of a listing: jsonify(reslist), or the server error of an
\* exception raised while assembling
ListingResponse(acc, strud) ==
    IF acc.err THEN [code |-> 500, body |-> <<>>]
    ELSE [code |-> 200, body |-> IF strud THEN acc.dict ELSE acc.list]

\* pack_json after "await pack(definition)"
pack_json ==
    /\ pc = "assemble"
    /\ route = "pack_json"
    /\ LET parsed == parse_definition(definition)
       IN  IF BadRequest(parsed)
           THEN /\ response' = [code |-> 400, body |-> <<>>]
                /\ UNCHANGED listCalls
           ELSE /\ listCalls' = [i \in 1..Len(parsed.words) |->
                       <<parsed.words[i].word, parsed.words[i].number>>]
                /\ response' = ListingResponse(
                       PackJsonLoop(EmptyReslist(strudel), strudel,
                                    parsed.words, cache), strudel)
    /\ pc' = "done"
    /\ UNCHANGED <<route, definition, strudel, pitch, words, tasks, order,
                   fetchCalls, speakCalls, cache, speechCache, status,
                   dedupVars>>

\* speech_json after "await speech(definition)"
speech_json ==
    /\ pc = "assemble"
    /\ route = "speech_json"
    /\ LET parsed == parse_definition(ReplaceSpaces(definition))
       IN  IF BadRequest(parsed)
           THEN /\ response' = [code |-> 400, body |-> <<>>]
                /\ UNCHANGED listCalls
           ELSE /\ listCalls' = [i \in 1..Len(parsed.words) |->
                       <<parsed.words[i].word, None>>]
                /\ response' = ListingResponse(
                       SpeechJsonLoop(EmptyReslist(strudel), strudel,
                                      parsed.words, speechCache, pitch),
                       strudel)
    /\ pc' = "done"
    /\ UNCHANGED <<route, definition, strudel, pitch, words, tasks, order,
                   fetchCalls, speakCalls, cache, speechCache, status,
                   dedupVars>>

\* pack_zip
pack_zip ==
    /\ pc = "recv"
    /\ route = "pack_zip"
    /\ LET parsed == parse_definition(definition)
       IN  IF BadRequest(parsed)
           THEN /\ response' = [code |-> 400, body |-> <<>>]
                /\ UNCHANGED <<words, listCalls>>
           ELSE /\ words' = parsed.words
                /\ listCalls' = [i \in 1..Len(parsed.words) |->
                       <<parsed.words[i].word, parsed.words[i].number>>]
                /\ response' = [code |-> 200,
                                body |-> ZipLoop(parsed.words, cache)]
    /\ pc' = "done"
    /\ UNCHANGED <<route, definition, strudel, pitch, tasks, order,
                   fetchCalls, speakCalls, cache, speechCache, status,
                   dedupVars>>

\* speech_zip
speech_zip ==
    /\ pc = "recv"
    /\ route = "speech_zip"
    /\ LET parsed == parse_definition(ReplaceSpaces(definition))
       IN  IF BadRequest(parsed)
           THEN /\ response' = [code |-> 400, body |-> <<>>]
                /\ UNCHANGED <<words, listCalls>>
           ELSE /\ words' = parsed.words
                /\ listCalls' = [i \in 1..Len(parsed.words) |->
                       <<parsed.words[i].word, parsed.words[i].number>>]
                /\ response' = [code |-> 200,
                                body |-> SpeechZipLoop(parsed.words, speechCache)]
    /\ pc' = "done"
    /\ UNCHANGED <<route, definition, strudel, pitch, tasks, order,
                   fetchCalls, speakCalls, cache, speechCache, status,
                   dedupVars>>

Next ==
    \/ pack_dispatch
    \/ speech_dispatch
    \/ \E i \in 1..MaxSegs : fetch_one(i)
    \/ \E i \in 1..MaxSegs : fetch_one_raises(i)
    \/ \E i \in 1..MaxSegs : speak_one(i)
    \/ \E i \in 1..MaxSegs : speak_one_raises(i)
    \/ gather_raises
    \/ gather_returns
    \/ pack_json
    \/ speech_json
    \/ pack_zip
    \/ speech_zip

Spec == Init /\ [][Next]_vars

----------------------------------------------------------------------------
(* Dj.fetch under concurrent callers: the per-FetchKey dedup token *)

InitFetch ==
    /\ route = "pack"
    /\ definition = dog
    /\ strudel = FALSE
    /\ pitch = 0
    /\ pc = "done"
    /\ words = <<>>
    /\ tasks = <<>>
    /\ order = <<>>
    /\ fetchCalls = <<>>
    /\ speakCalls = <<>>
    /\ listCalls = <<>>
    /\ \E k \in 0..MaxCached : cache = [w \in Words |-> k]
    /\ speechCache = [w \in Words |-> {}]
    /\ status = "none"
    /\ response = NoResponse
    /\ \E keys \in [1..NCallers -> FetchKeys] :
           callers = [c \in 1..NCallers |->
                         [key |-> keys[c], state |-> "idle", result |-> "none",
                          waitedFor |-> 0, remote |-> 0]]
    /\ token = [k \in FetchKeys |-> 0]
    /\ downloads = [k \in FetchKeys |-> 0]

\* mutant: the token is not consulted
TokenIgnored(tok, key) == TRUE

\* no caller holds the token of the key
TokenFree(tok, key) == tok[key] = 0

\* a caller enters dj.fetch: cache hit, or it takes the token and issues
\* the remote fetch, or it finds the fetch of its key in progress and waits
dj_fetch_enter(c) ==
    /\ callers[c].state = "idle"
    /\ LET key == callers[c].key
       IN  IF cache[key[1]] >= key[2]
           THEN /\ callers' = [callers EXCEPT ![c].state = "done",
                                              ![c].result = "True"]
                /\ UNCHANGED <<token, downloads>>
           ELSE IF TokenFree(token, key)
           THEN /\ callers' = [callers EXCEPT ![c].state = "fetching",
                                              ![c].remote = @ + 1]
                /\ token' = [token EXCEPT ![key] = c]
                /\ downloads' = [downloads EXCEPT ![key] = @ + 1]
           ELSE /\ callers' = [callers EXCEPT ![c].state = "waiting",
                                              ![c].waitedFor = token[key]]
                /\ UNCHANGED <<token, downloads>>
    /\ UNCHANGED <<reqVars, cache>>

\* the holder's remote fetch completes: samples stored, token released,
\* the callers waiting for it adopt its result
dj_fetch_complete(c) ==
    /\ callers[c].state = "fetching"
    /\ LET key == callers[c].key
       IN  /\ \E nc \in DownloadOutcomes(cache, key[1], key[2]) :
                  /\ cache' = nc
                  /\ callers' =
                         [d \in 1..NCallers |->
                             IF d = c \/ (callers[d].state = "waiting"
                                          /\ callers[d].waitedFor = c)
                             THEN [callers[d] EXCEPT
                                      !.state = "done",
                                      !.result = FetchResult(nc, key[1])]
                             ELSE callers[d]]
           /\ token' = [token EXCEPT ![key] = IF @ = c THEN 0 ELSE @]
    /\ UNCHANGED <<reqVars, downloads>>

NextFetch ==
    \/ \E c \in 1..NCallers : dj_fetch_enter(c)
    \/ \E c \in 1..NCallers : dj_fetch_complete(c)

SpecFetch == InitFetch /\ [][NextFetch]_vars

----------------------------------------------------------------------------
(* Properties *)

\* the definition as the route parses it
RouteDefinition ==
    IF route \in SpeechRoutes THEN ReplaceSpaces(definition) ELSE definition

Malformed == ~parse_definition(RouteDefinition).ok

SomeTaskSucceeded == \E i \in 1..Len(tasks) : tasks[i].result = "True"

\* the listing of a .json route was returned in flat mode
FlatListing ==
    /\ pc = "done"
    /\ route \in {"pack_json", "speech_json"}
    /\ ~strudel
    /\ listCalls # <<>>
    /\ response.code = 200

\* the sample key of the i-th word of the definition
KeyOf(i) ==
    IF route = "speech_json" THEN words[i].word \o
        (IF pitch = 0 THEN <<>> ELSE <<"_", "p">> \o PitchIntStr(pitch))
    ELSE words[i].word

Banks == [a \in 1..Len(response.body) |-> response.body[a].bank]

Ns == [a \in 1..Len(response.body) |-> response.body[a].n]

\* C1: the status /pack and /speech return (and the one pack_json and
\* speech_json get from them) is "ok" exactly when some task of the request
\* returned true, and "empty" otherwise, whatever the completion order.
C1_StatusIffAnySuccess ==
    /\ (pc = "done" /\ route \in {"pack", "speech"} /\ response.code = 200) =>
           /\ response.body.status \in {"ok", "empty"}
           /\ response.body.status = "ok" <=> SomeTaskSucceeded
    /\ status # "none" =>
           /\ status \in {"ok", "empty"}
           /\ status = "ok" <=> SomeTaskSucceeded

\* C1 witness: the second task completed first and failed, the first one
\* succeeded, and /pack answered "ok"
C1_Witness ==
    /\ pc = "done"
    /\ route = "pack"
    /\ response.code = 200
    /\ order = <<2, 1>>
    /\ tasks[1].result = "True"
    /\ tasks[2].result = "False"
    /\ response.body.status = "ok"

\* C2: at no time are two remote fetches of one (word, count) key in flight;
\* a caller that found the fetch of its key in progress issued no download,
\* ends with the holder's result, and the two together caused one download.
C2_OneFetchPerKey ==
    /\ \A k \in FetchKeys :
           Cardinality({c \in 1..NCallers :
               callers[c].state = "fetching" /\ callers[c].key = k}) <= 1
    /\ \A c \in 1..NCallers :
           (callers[c].state = "done" /\ callers[c].waitedFor # 0) =>
               /\ callers[c].remote = 0
               /\ callers[callers[c].waitedFor].state = "done"
               /\ callers[callers[c].waitedFor].result = callers[c].result
               /\ callers[c].remote + callers[callers[c].waitedFor].remote = 1

\* C2 witness: two callers of one key, the second waited for the first, both
\* are done and the key was downloaded once
C2_Witness ==
    /\ callers[1].key = callers[2].key
    /\ callers[2].waitedFor = 1
    /\ callers[1].state = "done"
    /\ callers[2].state = "done"
    /\ downloads[callers[1].key] = 1

\* C3: a failing task, whether it returns false or raises, is contained to
\* its word: /pack and /speech still answer with a well-formed body, whose
\* status is "ok" when another word succeeded.
C3_FailureContained ==
    (pc = "done" /\ route \in {"pack", "speech"} /\ ~Malformed) =>
        /\ response.code = 200
        /\ SomeTaskSucceeded => response.body.status = "ok"

\* C4: a malformed definition ends every route in a client error with no
\* fetch, speak or list call issued, no task started and no cache changed.
C4_MalformedAborts ==
    /\ [](Malformed =>
            /\ fetchCalls = <<>>
            /\ speakCalls = <<>>
            /\ listCalls = <<>>
            /\ tasks = <<>>
            /\ pc = "done" => response.code = 400)
    /\ [][Malformed => (cache' = cache /\ speechCache' = speechCache)]_vars

\* C4 witness: a .json request with a malformed definition was refused
C4_Witness ==
    /\ Malformed
    /\ route = "pack_json"
    /\ pc = "done"
    /\ response.code = 400

\* C5: the records of a flat listing are grouped by word in the order of
\* the definition, whatever order the fetch tasks completed in.
C5_ListingInDefinitionOrder ==
    FlatListing =>
        \A a, b \in 1..Len(response.body) :
            a < b => \E i, j \in 1..Len(words) :
                         /\ i <= j
                         /\ KeyOf(i) = Banks[a]
                         /\ KeyOf(j) = Banks[b]

\* C5 witness: the task of the second word completed first and the listing
\* holds records of both words
C5_Witness ==
    /\ FlatListing
    /\ order = <<2, 1>>
    /\ Len(words) = 2
    /\ \E a, b \in 1..Len(response.body) :
           Banks[a] = KeyOf(1) /\ Banks[b] = KeyOf(2)

\* the speech files listed for the i-th word
ListedFiles(i) ==
    IF strudel
    THEN IF /\ KeyOf(i) \in DOMAIN response.body
            /\ response.body[KeyOf(i)].kind = "list"
         THEN {response.body[KeyOf(i)].val[a] :
                  a \in 1..Len(response.body[KeyOf(i)].val)}
         ELSE {}
    ELSE {response.body[a].url :
             a \in {x \in 1..Len(response.body) : Banks[x] = KeyOf(i)}}

\* C6: the speech listing of a word holds exactly the cached file of the
\* requested pitch: the file without pitch suffix for pitch 0, the file
\* with the signed one-decimal suffix of p otherwise, nothing when that
\* file is not cached.
C6_PitchSelection ==
    (pc = "done" /\ route = "speech_json" /\ listCalls # <<>>
        /\ response.code = 200) =>
        \A i \in 1..Len(words) :
            ListedFiles(i) =
                {SPEECH_SAMPLE_PATH \o words[i].word \o
                     (IF q = 0 THEN <<>> ELSE FilePitchSuffix(q)) :
                 q \in {pitch} \cap speechCache[words[i].word]}

\* C6 witness: a neutral and a +1.0 file are cached and the neutral request
\* lists the neutral file alone
C6_Witness ==
    /\ FlatListing
    /\ route = "speech_json"
    /\ pitch = 0
    /\ words = <<[word |-> dog, number |-> None]>>
    /\ speechCache[dog] = {0, 10}
    /\ Len(response.body) = 1
    /\ response.body[1].url = SPEECH_SAMPLE_PATH \o dog

\* C7: in a flat listing every record has type "audio", its bank is the
\* sample key of a word of the definition, and n counts the earlier records
\* of the same bank; "dog:2,cat" with 2 dog samples and 1 cat sample lists
\* banks dog,dog,cat with n 0,1,0.
C7_FlatRecords ==
    FlatListing =>
        /\ \A a \in 1..Len(response.body) :
               /\ response.body[a].type = "audio"
               /\ \E i \in 1..Len(words) : Banks[a] = KeyOf(i)
               /\ Ns[a] = Cardinality({x \in 1..(a - 1) : Banks[x] = Banks[a]})
        /\ (/\ route = "pack_json"
            /\ definition = dog \o <<":", "2", ",">> \o cat
            /\ cache[dog] = 2
            /\ cache[cat] = 1) =>
               /\ Banks = <<dog, dog, cat>>
               /\ Ns = <<0, 1, 0>>

\* C7 witness: "dog:2,cat" listed with 2 dog samples and 1 cat sample
C7_Witness ==
    /\ FlatListing
    /\ route = "pack_json"
    /\ definition = dog \o <<":", "2", ",">> \o cat
    /\ cache[dog] = 2
    /\ cache[cat] = 1
    /\ Len(response.body) = 3

HasChar(s, ch) == \E i \in 1..Len(s) : s[i] = ch

\* the part of a bank after the word that starts it
KeyTail(bank, word) == SubSeq(bank, Len(word) + 1, Len(bank))

\* C8 as stated: the key of a pitched word carries no sign, negative
\* pitches included.
C8_KeyWithoutSign ==
    (FlatListing /\ route = "speech_json") =>
        \A a \in 1..Len(response.body) :
            ~HasChar(Banks[a], "+") /\ ~HasChar(Banks[a], "-")

\* C8 amended: the key is the word for pitch 0 and word_p<pitch> otherwise,
\* the pitch written without "+" and without forced decimal (a "." only
\* when the pitch is not integer-valued) and with a leading "-" exactly
\* when it is negative; it is the file-name suffix only for a negative
\* pitch that is not integer-valued.
C8_KeyRendering ==
    (FlatListing /\ route = "speech_json") =>
        \A a \in 1..Len(response.body) : \E i \in 1..Len(words) :
            LET w == words[i].word
                t == KeyTail(Banks[a], w)
            IN  /\ Len(Banks[a]) >= Len(w)
                /\ SubSeq(Banks[a], 1, Len(w)) = w
                /\ pitch = 0 => t = <<>>
                /\ pitch # 0 =>
                       /\ Len(t) >= 3
                       /\ SubSeq(t, 1, 2) = <<"_", "p">>
                       /\ ~HasChar(t, "+")
                       /\ HasChar(t, "-") <=> pitch < 0
                       /\ (t[3] = "-") <=> pitch < 0
                       /\ HasChar(t, ".") <=> pitch % 10 # 0
                       /\ (t = FilePitchSuffix(pitch))
                              <=> (pitch < 0 /\ pitch % 10 # 0)

\* C8 witness: the listing of dog at pitch -2.0 has bank dog_p-2
C8_Witness ==
    /\ FlatListing
    /\ route = "speech_json"
    /\ pitch = -20
    /\ Len(response.body) = 1
    /\ response.body[1].bank = dog \o <<"_", "p", "-", "2">>

\* C9: a word written without count is fetched by /pack and listed by the
\* .json route with count 1.
C9_DefaultCountOnEveryPath ==
    (pc = "done" /\ route = "pack_json" /\ listCalls # <<>>) =>
        \A i \in 1..Len(words) :
            words[i].number = None =>
                /\ fetchCalls[i] = <<words[i].word, 1>>
                /\ listCalls[i] = <<words[i].word, 1>>

\* C10: a grouped listing is a mapping whose _base entry is the base URL
\* and whose other keys map to non-empty lists of files, for every
\* definition that parses; the request does not fail on a key collision.
C10_GroupedListing ==
    (pc = "done" /\ route \in {"pack_json", "speech_json"} /\ strudel
        /\ listCalls # <<>>) =>
        /\ response.code = 200
        /\ _base \in DOMAIN response.body
        /\ response.body[_base] = [kind |-> "str", val |-> base]
        /\ \A k \in DOMAIN response.body \ {_base} :
               /\ response.body[k].kind = "list"
               /\ Len(response.body[k].val) > 0

====
